---- MODULE Spec2Model ----
(***************************************************************************)
(* Model of the Avisynth Checker (src/src/avs_check.cpp).                  *)
(*                                                                         *)
(* The program is one thread of control: wmain -> (main_ex) -> check_avs   *)
(* -> check_avs_helper.  The variables are the program's objects and       *)
(* locals, the text written to stderr, the history of the calls made into  *)
(* the operating system and into the probed library, and the position of   *)
(* the thread (pc).  The outcome of every foreign call is an input of the  *)
(* action that makes the call.                                             *)
(***************************************************************************)
EXTENDS Integers, Sequences, FiniteSets, TLC

VARIABLES
    build,            \* "debug" or "release": ENABLE_DEBUG (lines 27-32)
    pc,               \* position of the thread of control
    m_library,        \* avisynthLib.m_library: "NULL" or "HMODULE"
    m_error,          \* avisynthLib.m_error
    avisynthPath,     \* wchar_t avisynthPath[4096] as filled by getPath
    resolved,         \* number of function pointers set by INIT_FUNCTION
    avs_env,          \* AVS_ScriptEnvironment*: "NULL" or "ENV"
    avs_version,      \* AVS_Value returned by avs_invoke
    avisynthVersion,  \* double avisynthVersion
    result,           \* value returned by check_avs_helper
    exitCode,         \* exit code of the process, once it has ended
    stderr,           \* lines written to the diagnostic stream
    calls             \* foreign calls made so far, in order

vars == << build, pc, m_library, m_error, avisynthPath, resolved, avs_env,
           avs_version, avisynthVersion, result, exitCode, stderr, calls >>

-----------------------------------------------------------------------------
(* Bounds of the model *)

\* GetLastError() after a failed call yields one of 1..MaxErr (never 0)
MaxErr == 2

-----------------------------------------------------------------------------
(* Program constants *)

EXIT_SUCCESS == 0
EXIT_LOAD_LIBRARY_FAILED == 1
EXIT_DERTERMINE_PATH_FAILED == 2
EXIT_RESOLVE_ENTRYPT_FAILED == 3
EXIT_CHECK_VERSION_FAILED == 4

ERROR_SUCCESS == 0

\* length of avisynthPath and avisynthRealPath
PATH_BUFFER_LENGTH == 4096

\* names handed to INIT_FUNCTION, in program order
FUNCTION_NAMES ==
    << "avs_create_script_environment", "avs_delete_script_environment",
       "avs_invoke", "avs_function_exists", "avs_release_value" >>

\* UINT(-1), the argument of TerminateProcess, read back as the signed
\* 32-bit exit code of the process
FATAL_EXIT_CODE == -1

-----------------------------------------------------------------------------
(* Doubles: not-a-number, the two infinities, and finite values counted in *)
(* units of 10^-5 (250000 is 2.5, 249999 is 2.49999).                      *)

DBL_NAN == [k |-> "nan", n |-> 0]
PosInf  == [k |-> "pinf", n |-> 0]
NegInf  == [k |-> "ninf", n |-> 0]
Num(n)  == [k |-> "num", n |-> n]

\* 2.5, the minimum version
MIN_VERSION == Num(250000)

isnan(d) == d.k = "nan"

\* IEEE-754 a < b : false as soon as one side is not-a-number
DblLess(a, b) ==
    CASE a.k = "nan" \/ b.k = "nan" -> FALSE
      [] a.k = "ninf" -> b.k # "ninf"
      [] a.k = "pinf" -> FALSE
      [] b.k = "pinf" -> TRUE
      [] b.k = "ninf" -> FALSE
      [] OTHER -> a.n < b.n

\* values the probed library may hand back from VersionNumber
VersionValues ==
    { DBL_NAN, PosInf, NegInf, Num(0), Num(249999), Num(250000), Num(260000) }

\* AVS_Value: type 'e' (error), 'f' (float) or 'v' (anything else)
AVS_Values == [type : {"e", "f", "v"}, d : VersionValues]
NoValue == [type |-> "none", d |-> DBL_NAN]

-----------------------------------------------------------------------------
(* Paths: strings as sequences of characters *)

UcnPrefix == << "\\", "\\", "?", "\\" >>

RawPaths == { << "c", ":", "\\", "a" >>, << "D", ":", "\\", "b" >> }

\* what GetFinalPathNameByHandleW may write
RealPaths ==
    { UcnPrefix \o p : p \in RawPaths }
      \cup { UcnPrefix \o << "U", "N", "C", "\\", "s" >> }
      \cup { << "C", ":", "\\", "a" >> }

\* contents an uninitialised stack buffer may happen to have
StackGarbage == RealPaths \cup RawPaths \cup { << "#", "#" >> }

NoPath == << >>

iswalpha(c) == c \in {"c", "C", "D", "U", "N", "a", "b", "s"}

remove_ucn_prefix(filePath) ==
    IF /\ Len(filePath) >= 6
       /\ SubSeq(filePath, 1, 4) = UcnPrefix
       /\ iswalpha(filePath[5])
       /\ filePath[6] = ":"
    THEN SubSeq(filePath, 5, Len(filePath))
    ELSE filePath

-----------------------------------------------------------------------------
(* stderr and the call history *)

Line(l, c, p) == [line |-> l, code |-> c, path |-> p]
Msg(l) == Line(l, 0, NoPath)

Call(f, a, r) == [fn |-> f, arg |-> a, ret |-> r]

FaultKinds == {"cpp", "invalid_param", "seh"}

\* exit codes the operating system or the C runtime gives a process that
\* dies of a fault nobody handles: abort() and two NTSTATUS codes
OsFaultCodes == { 3, -1073741819, -1073740777 }

-----------------------------------------------------------------------------
Init ==
    /\ build \in {"debug", "release"}
    /\ pc = "wmain"
    /\ m_library = "NULL"
    /\ m_error = ERROR_SUCCESS
    /\ avisynthPath = NoPath
    /\ resolved = 0
    /\ avs_env = "NULL"
    /\ avs_version = NoValue
    /\ avisynthVersion = DBL_NAN
    /\ result = 0
    /\ exitCode = 0
    /\ stderr = << >>
    /\ calls = << >>

-----------------------------------------------------------------------------
(* Library: destructor, and the tests getPath and get_real_filename make   *)

\* mutant of Library_dtor: the isNull() test is left out
Library_dtor_Unguarded(lib, name) == << Call("FreeLibrary", name, "ok") >>

\* the calls ~Library() makes for a Library holding handle lib
Library_dtor(lib, name) ==
    IF lib # "NULL" THEN << Call("FreeLibrary", name, "ok") >> ELSE << >>

\* m_error as getPath leaves it, ret being what GetModuleFileNameW returned
\* and lastError what GetLastError() would return
getPath_error(ret, lastError) ==
    IF ret # 0 THEN ERROR_SUCCESS ELSE lastError

\* mutant of getPath_result: the comparison with the buffer length is left out
getPath_result_NoLengthTest(ret, length) == ret > 0

\* the value getPath returns
getPath_result(ret, length) == (ret > 0) /\ (ret < length)

\* the test get_real_filename makes on what GetFinalPathNameByHandleW returned
get_real_filename_result(ret, length) == (length > 0) /\ (ret < length)

-----------------------------------------------------------------------------
(* Fatal conditions *)

\* mutant of HandlersInstalled: the handlers are installed in no build
HandlersInstalled_Never(b) == FALSE

\* whether wmain installs the last-resort handlers: only if !ENABLE_DEBUG
HandlersInstalled(b) == b = "release"

\* the handler that gets a fatal condition of each kind, and its message
FatalMessage(kind) ==
    CASE kind = "cpp" -> "FATAL ERROR: Unhandeled C++ exception!"
      [] kind = "invalid_param" -> "FATAL ERROR: Invalid parameter handler invoked!"
      [] kind = "seh" -> "FATAL ERROR: Unhandeled structured exception!"

\* fatal_exit: print the message, TerminateProcess(UINT(-1)); never returns
fatal_exit(message) ==
    /\ stderr' = Append(stderr, Msg(message))
    /\ exitCode' = FATAL_EXIT_CODE
    /\ pc' = "terminated"

\* A fatal condition of the given kind is raised inside check_avs_helper,
\* hist being the calls made up to it.  A C++ exception that main_ex catches
\* unwinds check_avs_helper first, which destroys avisynthLib.
Raise(kind, hist) ==
    IF HandlersInstalled(build)
    THEN /\ fatal_exit(FatalMessage(kind))
         /\ calls' = IF kind = "cpp"
                      THEN hist \o Library_dtor(m_library, "avisynth")
                      ELSE hist
    ELSE /\ pc' = "crashed"
         /\ exitCode' \in OsFaultCodes
         /\ stderr' = stderr
         /\ calls' = hist

\* check_avs_helper returns code: avisynthLib (holding lib) goes out of scope
Return(code, lib, hist) ==
    /\ result' = code
    /\ calls' = hist \o Library_dtor(lib, "avisynth")
    /\ pc' = "check_avs"

-----------------------------------------------------------------------------
(* The steps of the program *)

\* wmain up to the call of check_avs_helper: handlers, DLL directory, banner
wmain ==
    /\ pc = "wmain"
    /\ calls' = (IF HandlersInstalled(build)
                 THEN << Call("SetErrorMode", "", "ok"),
                         Call("SetUnhandledExceptionFilter", "my_exception_handler", "ok"),
                         Call("_set_invalid_parameter_handler", "my_invalid_param_handler", "ok") >>
                 ELSE << >>)
                \o << Call("SetDllDirectoryW", "", "ok") >>
    /\ stderr' = << Msg("Avisynth Checker") >>
    /\ pc' = "Library"
    /\ UNCHANGED << build, m_library, m_error, avisynthPath, resolved, avs_env,
                    avs_version, avisynthVersion, result, exitCode >>

\* Library avisynthLib(L"avisynth") and the isNull() test after it
Library ==
    /\ pc = "Library"
    /\ \E loaded \in BOOLEAN, lastError \in 1..MaxErr :
         LET lib == IF loaded THEN "HMODULE" ELSE "NULL"
             err == IF loaded THEN ERROR_SUCCESS ELSE lastError
             hist == Append(calls, Call("LoadLibraryW", "avisynth",
                                         IF loaded THEN "ok" ELSE "null"))
         IN  /\ m_library' = lib
             /\ m_error' = err
             /\ IF lib = "NULL"
                THEN /\ stderr' = Append(stderr,
                            Line("ERROR: Avisynth DLL could not be loaded!", err, NoPath))
                     /\ Return(EXIT_LOAD_LIBRARY_FAILED, lib, hist)
                ELSE /\ stderr' = stderr
                     /\ calls' = hist
                     /\ pc' = "getPath"
                     /\ result' = result
    /\ UNCHANGED << build, avisynthPath, resolved, avs_env, avs_version,
                    avisynthVersion, exitCode >>

\* avisynthLib.getPath(avisynthPath, 4096) and the test of its result
getPath ==
    /\ pc = "getPath"
    /\ \E path \in RawPaths, lastError \in 1..MaxErr :
       \E ret \in {0, Len(path), PATH_BUFFER_LENGTH} :
         LET err == getPath_error(ret, lastError)
             hist == Append(calls, Call("GetModuleFileNameW", "avisynth",
                                CASE ret = 0 -> "zero"
                                  [] ret = PATH_BUFFER_LENGTH -> "truncated"
                                  [] OTHER -> "ok"))
         IN  /\ m_error' = err
             /\ IF getPath_result(ret, PATH_BUFFER_LENGTH)
                THEN /\ avisynthPath' = path
                     /\ stderr' = stderr
                     /\ calls' = hist
                     /\ pc' = "get_real_filename"
                     /\ result' = result
                ELSE /\ avisynthPath' = avisynthPath
                     /\ stderr' = Append(stderr,
                            Line("ERROR: Failed to determine Avisynth DLL path!", err, NoPath))
                     /\ Return(EXIT_DERTERMINE_PATH_FAILED, m_library, hist)
    /\ UNCHANGED << build, m_library, resolved, avs_env, avs_version,
                    avisynthVersion, exitCode >>

\* get_real_filename(avisynthPath, avisynthRealPath, 4096) and the printing
\* of the Avisynth_DLLPath line.  avisynthRealPath is an uninitialised stack
\* buffer: when GetFinalPathNameByHandleW fails (returns 0) it is read as it
\* is, and wcslen may run past its end.
get_real_filename ==
    /\ pc = "get_real_filename"
    /\ \E k32 \in BOOLEAN, found \in BOOLEAN, opened \in BOOLEAN,
          real \in RealPaths, garbage \in StackGarbage, overrun \in BOOLEAN :
       \E ret \in {0, Len(real), PATH_BUFFER_LENGTH, PATH_BUFFER_LENGTH + 1} :
         LET kernel32 == IF k32 THEN "HMODULE" ELSE "NULL"
             c1 == << Call("LoadLibraryW", "kernel32", IF k32 THEN "ok" ELSE "null") >>
             ptr == k32 /\ found
             c2 == IF k32
                   THEN << Call("GetProcAddress", "GetFinalPathNameByHandleW",
                                IF found THEN "ok" ELSE "null") >>
                   ELSE << >>
             c3 == IF ptr
                   THEN << Call("CreateFileW", "avisynthPath",
                                IF opened THEN "ok" ELSE "invalid") >>
                   ELSE << >>
             called == ptr /\ opened
             c4 == IF called
                   THEN << Call("GetFinalPathNameByHandleW", "avisynthRealPath",
                                CASE ret = 0 -> "zero"
                                  [] ret >= PATH_BUFFER_LENGTH -> "too_long"
                                  [] OTHER -> "ok") >>
                   ELSE << >>
             ok == called /\ get_real_filename_result(ret, PATH_BUFFER_LENGTH)
             buffer == IF ret = 0 THEN garbage ELSE real
             hist == calls \o c1 \o c2 \o c3 \o c4
         IN  IF ok /\ ret = 0 /\ overrun
             THEN /\ Raise("seh", Append(hist, Call("wcslen", "avisynthRealPath", "seh")))
                  /\ UNCHANGED result
             ELSE /\ calls' = hist \o Library_dtor(kernel32, "kernel32")
                  /\ stderr' = Append(stderr,
                         Line("Avisynth_DLLPath=", 0,
                              IF ok THEN remove_ucn_prefix(buffer) ELSE avisynthPath))
                  /\ pc' = "INIT_FUNCTION"
                  /\ UNCHANGED << result, exitCode >>
    /\ UNCHANGED << build, m_library, m_error, avisynthPath, resolved, avs_env,
                    avs_version, avisynthVersion >>

\* mutant of INIT_FUNCTION_failed: a NULL pointer is not noticed
INIT_FUNCTION_failed_Never(found) == FALSE

\* whether INIT_FUNCTION gives up: the pointer it got is NULL
INIT_FUNCTION_failed(found) == ~found

\* INIT_FUNCTION(avisynthLib, NAME) for the next of the five names
INIT_FUNCTION ==
    /\ pc = "INIT_FUNCTION"
    /\ resolved < Len(FUNCTION_NAMES)
    /\ \E found \in BOOLEAN, lastError \in 1..MaxErr :
         LET name == FUNCTION_NAMES[resolved + 1]
             err == IF found THEN ERROR_SUCCESS ELSE lastError
             hist == Append(calls, Call("GetProcAddress", name,
                                         IF found THEN "ok" ELSE "null"))
         IN  /\ m_error' = err
             /\ IF INIT_FUNCTION_failed(found)
                THEN /\ stderr' = Append(stderr,
                            Line("ERROR: Function could not be resolved!", err, NoPath))
                     /\ resolved' = resolved
                     /\ Return(EXIT_RESOLVE_ENTRYPT_FAILED, m_library, hist)
                ELSE /\ stderr' = stderr
                     /\ resolved' = resolved + 1
                     /\ calls' = hist
                     /\ pc' = IF resolved' = Len(FUNCTION_NAMES)
                              THEN "avs_create_script_environment"
                              ELSE "INIT_FUNCTION"
                     /\ result' = result
    /\ UNCHANGED << build, m_library, avisynthPath, avs_env, avs_version,
                    avisynthVersion, exitCode >>

\* mutant of EnvCreated: the NULL test is left out
EnvCreated_Always(env) == TRUE

\* the test  if(avs_env != NULL)
EnvCreated(env) == env # "NULL"

\* avs_env = avs_create_script_environment_ptr(AVS_INTERFACE_25)
avs_create_script_environment ==
    /\ pc = "avs_create_script_environment"
    /\ \E out \in {"NULL", "ENV"} \cup FaultKinds :
         LET hist == Append(calls, Call("avs_create_script_environment",
                                         "AVS_INTERFACE_25", out))
         IN  IF out \in FaultKinds
             THEN /\ Raise(out, hist)
                  /\ UNCHANGED avs_env
             ELSE /\ avs_env' = out
                  /\ calls' = hist
                  /\ pc' = IF EnvCreated(out)
                           THEN "avs_function_exists"
                           ELSE "check_version"
                  /\ UNCHANGED << stderr, exitCode >>
    /\ UNCHANGED << build, m_library, m_error, avisynthPath, resolved,
                    avs_version, avisynthVersion, result >>

\* avs_function_exists_ptr(avs_env, "VersionNumber")
avs_function_exists ==
    /\ pc = "avs_function_exists"
    /\ \E out \in {"true", "false"} \cup FaultKinds :
         LET hist == Append(calls, Call("avs_function_exists", avs_env, out))
         IN  IF out \in FaultKinds
             THEN Raise(out, hist)
             ELSE /\ calls' = hist
                  /\ pc' = IF out = "true"
                           THEN "avs_invoke"
                           ELSE "avs_delete_script_environment"
                  /\ UNCHANGED << stderr, exitCode >>
    /\ UNCHANGED << build, m_library, m_error, avisynthPath, resolved, avs_env,
                    avs_version, avisynthVersion, result >>

\* avs_version = avs_invoke_ptr(avs_env, "VersionNumber", ...)
avs_invoke ==
    /\ pc = "avs_invoke"
    /\ \/ \E v \in AVS_Values :
            /\ avs_version' = v
            /\ calls' = Append(calls, Call("avs_invoke", avs_env, v.type))
            /\ pc' = "avs_as_float"
            /\ UNCHANGED << stderr, exitCode >>
       \/ \E kind \in FaultKinds :
            /\ Raise(kind, Append(calls, Call("avs_invoke", avs_env, kind)))
            /\ UNCHANGED avs_version
    /\ UNCHANGED << build, m_library, m_error, avisynthPath, resolved, avs_env,
                    avisynthVersion, result >>

\* whether the value of avs_invoke is read and released:
\* !avs_is_error(avs_version) and avs_is_float(avs_version)
ValueTaken(v) == (v.type # "e") /\ (v.type = "f")

\* the block that tests avs_version, reads it with avs_as_float and hands
\* it to avs_release_value
avs_as_float ==
    /\ pc = "avs_as_float"
    /\ IF ValueTaken(avs_version)
       THEN \E out \in {"ok"} \cup FaultKinds :
              LET hist == Append(calls, Call("avs_release_value", "avs_version", out))
              IN  IF out \in FaultKinds
                  THEN /\ Raise(out, hist)
                       /\ avisynthVersion' = avs_version.d
                  ELSE /\ avisynthVersion' = avs_version.d
                       /\ calls' = hist
                       /\ pc' = "avs_delete_script_environment"
                       /\ UNCHANGED << stderr, exitCode >>
       ELSE /\ pc' = "avs_delete_script_environment"
            /\ UNCHANGED << avisynthVersion, calls, stderr, exitCode >>
    /\ UNCHANGED << build, m_library, m_error, avisynthPath, resolved, avs_env,
                    avs_version, result >>

\* avs_delete_script_environment_ptr(avs_env)
avs_delete_script_environment ==
    /\ pc = "avs_delete_script_environment"
    /\ \E out \in {"ok"} \cup FaultKinds :
         LET hist == Append(calls, Call("avs_delete_script_environment", avs_env, out))
         IN  IF out \in FaultKinds
             THEN Raise(out, hist)
             ELSE /\ calls' = hist
                  /\ pc' = "check_version"
                  /\ UNCHANGED << stderr, exitCode >>
    /\ UNCHANGED << build, m_library, m_error, avisynthPath, resolved, avs_env,
                    avs_version, avisynthVersion, result >>

\* the final test of check_avs_helper on the version it found
VersionRejected(v) == isnan(v) \/ DblLess(v, MIN_VERSION)

\* the version test, the Avisynth_Version line and the return of the helper
check_version ==
    /\ pc = "check_version"
    /\ IF VersionRejected(avisynthVersion)
       THEN /\ stderr' = Append(stderr, Msg("ERROR: Failed to determine Avisynth version!"))
            /\ Return(EXIT_CHECK_VERSION_FAILED, m_library, calls)
       ELSE /\ stderr' = Append(stderr, Msg("Avisynth_Version="))
            /\ Return(EXIT_SUCCESS, m_library, calls)
    /\ UNCHANGED << build, m_library, m_error, avisynthPath, resolved, avs_env,
                    avs_version, avisynthVersion, exitCode >>

\* whether check_avs prints the "is available" line:  if(result)
SaysAvailable(r) == r # 0

\* check_avs after the helper has returned: the summary line; the value is
\* returned through (main_ex and) wmain and becomes the exit code
check_avs ==
    /\ pc = "check_avs"
    /\ stderr' = Append(stderr,
           IF SaysAvailable(result)
           THEN Msg("Avisynth v2.5+ is available on this machine :-)")
           ELSE Msg("Avisynth v2.5+ is *NOT* available on this machine :-("))
    /\ exitCode' = result
    /\ pc' = "exited"
    /\ UNCHANGED << build, m_library, m_error, avisynthPath, resolved, avs_env,
                    avs_version, avisynthVersion, result, calls >>

Next ==
    \/ wmain
    \/ Library
    \/ getPath
    \/ get_real_filename
    \/ INIT_FUNCTION
    \/ avs_create_script_environment
    \/ avs_function_exists
    \/ avs_invoke
    \/ avs_as_float
    \/ avs_delete_script_environment
    \/ check_version
    \/ check_avs

Spec == Init /\ [][Next]_vars

-----------------------------------------------------------------------------
(* Reading the history *)

Count(f) == Cardinality({ i \in DOMAIN calls : calls[i].fn = f })

CountOn(f, a) ==
    Cardinality({ i \in DOMAIN calls : calls[i].fn = f /\ calls[i].arg = a })

Made(f, a, r) == \E i \in DOMAIN calls : calls[i] = Call(f, a, r)

Names == { FUNCTION_NAMES[i] : i \in DOMAIN FUNCTION_NAMES }

AvsCalls == { "avs_create_script_environment", "avs_function_exists",
              "avs_invoke", "avs_release_value", "avs_delete_script_environment" }

Printed(l) == \E i \in DOMAIN stderr : stderr[i].line = l

AvailableLine == "Avisynth v2.5+ is available on this machine :-)"
NotAvailableLine == "Avisynth v2.5+ is *NOT* available on this machine :-("

FatalLines == { "FATAL ERROR: Unhandeled C++ exception!",
                "FATAL ERROR: Invalid parameter handler invoked!",
                "FATAL ERROR: Unhandeled structured exception!" }

\* check_avs_helper has returned
HelperReturned == pc \in {"check_avs", "exited"}

LoadFailed == Made("LoadLibraryW", "avisynth", "null")
Loaded == Made("LoadLibraryW", "avisynth", "ok")
PathFailed ==
    \E i \in DOMAIN calls :
        calls[i].fn = "GetModuleFileNameW" /\ calls[i].ret # "ok"
SymbolMissing == \E n \in Names : Made("GetProcAddress", n, "null")
AllResolved == \A n \in Names : Made("GetProcAddress", n, "ok")
EnvNonNull == Made("avs_create_script_environment", "AVS_INTERFACE_25", "ENV")

\* a fatal condition has been raised
Faulted == \E i \in DOMAIN calls : calls[i].ret \in FaultKinds

\* the calls of avs_invoke that returned a value
InvokeReturned ==
    { i \in DOMAIN calls :
        calls[i].fn = "avs_invoke" /\ calls[i].ret \in {"e", "f", "v"} }

\* the version line of the spec's table: a float invocation result
\* that is a number, not below 2.5
VersionDetermined ==
    /\ EnvNonNull
    /\ Made("avs_function_exists", "ENV", "true")
    /\ Made("avs_invoke", "ENV", "f")
    /\ \/ avs_version.d.k = "pinf"
       \/ avs_version.d.k = "num" /\ avs_version.d.n >= 250000

\* the same with the value required to be finite
VersionFiniteAndSufficient ==
    /\ VersionDetermined
    /\ avs_version.d.k = "num"

\* canonicalization was unavailable or failed
CanonFailed ==
    \/ Made("LoadLibraryW", "kernel32", "null")
    \/ Made("GetProcAddress", "GetFinalPathNameByHandleW", "null")
    \/ Made("CreateFileW", "avisynthPath", "invalid")
    \/ Made("GetFinalPathNameByHandleW", "avisynthRealPath", "zero")
    \/ Made("GetFinalPathNameByHandleW", "avisynthRealPath", "too_long")

CanonSucceeded == Made("GetFinalPathNameByHandleW", "avisynthRealPath", "ok")

-----------------------------------------------------------------------------
(* C1 *)

\* C1: when the process has exited normally, the summary line printed by
\* check_avs is the "is available" line if and only if check_avs_helper
\* returned 0, and the "*NOT* available" line for every non-zero result.
C1_SummaryMatchesResult ==
    pc = "exited" =>
        /\ (Printed(AvailableLine) <=> result = 0)
        /\ (Printed(NotAvailableLine) <=> result # 0)

-----------------------------------------------------------------------------
(* C2 *)

\* the code of the first phase that failed, read off the foreign calls
FirstFailedPhase ==
    IF LoadFailed THEN 1
    ELSE IF PathFailed THEN 2
    ELSE IF SymbolMissing THEN 3
    ELSE IF ~VersionDetermined THEN 4
    ELSE 0

\* C2: when no fatal fault occurs, the exit code of the process is the code
\* of the first phase that failed (1 load, 2 path, 3 entry point, 4 version,
\* 0 when every phase succeeded), and it is the value check_avs_helper
\* returned.
C2_ExitCodeIsFirstFailedPhase ==
    pc = "exited" => (exitCode = FirstFailedPhase /\ exitCode = result)

\* C2 witness: a run that got as far as the version and found 2.49999
C2_Witness ==
    /\ pc = "exited"
    /\ exitCode = 4
    /\ Made("avs_invoke", "ENV", "f")
    /\ avs_version.d = Num(249999)

-----------------------------------------------------------------------------
(* C3 *)

\* C3: whenever canonicalization is unavailable or fails, the
\* Avisynth_DLLPath line is printed with the raw module path, and a
\* different path is printed only when canonicalization produced one.
C3_RawPathOnCanonFailure ==
    /\ CanonFailed =>
          \E i \in DOMAIN stderr :
              stderr[i].line = "Avisynth_DLLPath=" /\ stderr[i].path = avisynthPath
    /\ \A i \in DOMAIN stderr :
          (stderr[i].line = "Avisynth_DLLPath=" /\ stderr[i].path # avisynthPath)
              => CanonSucceeded

-----------------------------------------------------------------------------
(* C4 *)

\* C4: avs_delete_script_environment is never called on a null environment
\* nor twice, and when check_avs_helper returns it has been called exactly
\* once if avs_create_script_environment returned non-null, never otherwise.
C4_EnvReleasedExactlyOnce ==
    /\ Count("avs_delete_script_environment") <= 1
    /\ \A i \in DOMAIN calls :
          calls[i].fn = "avs_delete_script_environment" =>
              /\ calls[i].arg = "ENV"
              /\ \E j \in 1..(i - 1) :
                    calls[j] = Call("avs_create_script_environment",
                                    "AVS_INTERFACE_25", "ENV")
    /\ \A i \in DOMAIN calls :
          calls[i].fn \in {"avs_function_exists", "avs_invoke"} =>
              calls[i].arg = "ENV"
    /\ HelperReturned =>
          Count("avs_delete_script_environment") = (IF EnvNonNull THEN 1 ELSE 0)

\* C4 witness: the helper returned after an invocation that gave an error
C4_Witness ==
    /\ HelperReturned
    /\ Made("avs_invoke", "ENV", "e")
    /\ Count("avs_delete_script_environment") = 1

-----------------------------------------------------------------------------
(* C5 *)

\* C5: with all five entry points resolved, check_avs_helper returns 0 if
\* and only if the environment is non-null, VersionNumber exists, its result
\* is a float and the value is a finite number >= 2.5; otherwise it
\* returns 4.
C5_SuccessIffFiniteVersion ==
    (HelperReturned /\ AllResolved) =>
        /\ (result = 0 <=> VersionFiniteAndSufficient)
        /\ (result # 0 => result = 4)

-----------------------------------------------------------------------------
(* C6 *)

\* the names INIT_FUNCTION looked up, in the order of the lookups
RECURSIVE Lookups(_)
Lookups(h) ==
    IF h = << >> THEN << >>
    ELSE IF Head(h).fn = "GetProcAddress" /\ Head(h).arg \in Names
         THEN << Head(h).arg >> \o Lookups(Tail(h))
         ELSE Lookups(Tail(h))

\* C6: the probe is fail-fast.  After a failed load nothing else is called;
\* after a failed path lookup no symbol is resolved; the five symbols are
\* resolved in program order and a missing one is the last one looked up,
\* with avs_create_script_environment never called.
C6_FailFast ==
    /\ LoadFailed =>
          \A i \in DOMAIN calls :
              calls[i].fn \notin ({"GetModuleFileNameW", "GetProcAddress", "CreateFileW"}
                                   \cup AvsCalls)
    /\ PathFailed =>
          \A i \in DOMAIN calls :
              calls[i].fn \notin ({"GetProcAddress", "CreateFileW"} \cup AvsCalls)
    /\ Lookups(calls) = SubSeq(FUNCTION_NAMES, 1, Len(Lookups(calls)))
    /\ \A i \in DOMAIN calls :
          (calls[i].fn = "GetProcAddress" /\ calls[i].arg \in Names
             /\ calls[i].ret = "null") =>
              \A j \in (i + 1)..Len(calls) :
                  calls[j].fn \notin ({"GetProcAddress"} \cup AvsCalls)
    /\ \A i \in DOMAIN calls : calls[i].fn \in AvsCalls => AllResolved

\* C6 witness: avs_invoke is missing and the process exited with 3
C6_Witness ==
    /\ pc = "exited"
    /\ exitCode = 3
    /\ Made("GetProcAddress", "avs_invoke", "null")

-----------------------------------------------------------------------------
(* C7 *)

\* what has to be true once a fatal condition has occurred: the process was
\* terminated by fatal_exit with a FATAL ERROR message as its last line and
\* exit code -1, and no summary line was printed
FatalHandled ==
    /\ pc = "terminated"
    /\ exitCode = -1
    /\ stderr # << >>
    /\ stderr[Len(stderr)].line \in FatalLines
    /\ ~Printed(AvailableLine)
    /\ ~Printed(NotAvailableLine)

\* C7 as claimed: in every build configuration, whenever a fatal condition
\* has occurred the last-resort handler printed the FATAL ERROR message and
\* the process was terminated with exit code -1, nothing following it.
C7_FatalHandledInEveryBuild ==
    /\ Faulted => FatalHandled
    /\ pc = "terminated" => FatalHandled

\* C7 amended: the same in the release build (ENABLE_DEBUG == 0), the only
\* one in which wmain installs the handlers.
C7_FatalHandledInRelease ==
    /\ (build = "release" /\ Faulted) => FatalHandled
    /\ pc = "terminated" => (FatalHandled /\ Faulted)

\* C7 witness: a release build in which avs_invoke raised a structured fault
C7_Witness ==
    /\ build = "release"
    /\ Made("avs_invoke", "ENV", "seh")
    /\ pc = "terminated"

-----------------------------------------------------------------------------
(* C8 *)

\* C8: FreeLibrary is called on the avisynth handle at most once, never
\* when the load failed, and exactly once by the time check_avs_helper has
\* returned with the library loaded; the kernel32 handle of
\* get_real_filename likewise; and nothing resolved from a library is
\* called after its handle was released.
C8_LibraryReleasedExactlyOnce ==
    /\ CountOn("FreeLibrary", "avisynth") <= 1
    /\ LoadFailed => CountOn("FreeLibrary", "avisynth") = 0
    /\ HelperReturned =>
          CountOn("FreeLibrary", "avisynth") = (IF Loaded THEN 1 ELSE 0)
    /\ (HelperReturned /\ result \in {0, 2, 3, 4}) =>
          CountOn("FreeLibrary", "avisynth") = 1
    /\ CountOn("FreeLibrary", "kernel32") <= 1
    /\ Made("LoadLibraryW", "kernel32", "null") =>
          CountOn("FreeLibrary", "kernel32") = 0
    /\ (Made("LoadLibraryW", "kernel32", "ok") /\ Printed("Avisynth_DLLPath=")) =>
          CountOn("FreeLibrary", "kernel32") = 1
    /\ \A i \in DOMAIN calls :
          calls[i] = Call("FreeLibrary", "avisynth", "ok") =>
              \A j \in (i + 1)..Len(calls) :
                  calls[j].fn \notin (AvsCalls \cup
                      {"GetProcAddress", "GetModuleFileNameW", "FreeLibrary"})
    /\ \A i \in DOMAIN calls :
          calls[i] = Call("FreeLibrary", "kernel32", "ok") =>
              \A j \in (i + 1)..Len(calls) :
                  calls[j].fn # "GetFinalPathNameByHandleW"

\* C8 witness: the helper returned 3 with the library loaded and released
C8_Witness ==
    /\ HelperReturned
    /\ result = 3
    /\ Loaded
    /\ CountOn("FreeLibrary", "avisynth") = 1

-----------------------------------------------------------------------------
(* C9 *)

\* the operations made on avisynthLib so far
LibraryOps ==
    { i \in DOMAIN calls :
        \/ calls[i].fn \in {"LoadLibraryW", "GetModuleFileNameW"}
             /\ calls[i].arg = "avisynth"
        \/ calls[i].fn = "GetProcAddress" /\ calls[i].arg \in Names }

\* C9: after every operation on avisynthLib the stored error code is
\* ERROR_SUCCESS if and only if the operation reported success; and the
\* code printed in the "Failed to determine Avisynth DLL path" diagnostic
\* is never ERROR_SUCCESS.
C9_ErrorCodeTellsFailure ==
    /\ \A i \in LibraryOps :
          (\A j \in LibraryOps : j <= i) =>
              (m_error = 0 <=> calls[i].ret = "ok")
    /\ \A i \in DOMAIN stderr :
          stderr[i].line = "ERROR: Failed to determine Avisynth DLL path!" =>
              stderr[i].code # 0

-----------------------------------------------------------------------------
(* C10 *)

\* C10: every value avs_invoke returned is handed to avs_release_value
\* exactly once, before avs_delete_script_environment is called, and
\* avs_release_value is never called without an avs_invoke before it.
C10_InvokeResultReleased ==
    /\ \A i \in DOMAIN calls :
          calls[i].fn = "avs_release_value" =>
              \E j \in InvokeReturned : j < i
    /\ Count("avs_release_value") <= Cardinality(InvokeReturned)
    /\ \A i \in DOMAIN calls :
          calls[i].fn = "avs_delete_script_environment" =>
              /\ Count("avs_release_value") = Cardinality(InvokeReturned)
              /\ \A j \in DOMAIN calls :
                    calls[j].fn = "avs_release_value" => j < i

====
